---- MODULE Spec2Model ----
(***************************************************************************)
(* Model of duqtools' variable resolver (large_scale_validation/setup.py,  *)
(* class Variables) and of the merge routine (ids/_merge.py, merge_data).  *)
(*                                                                         *)
(* Python values are modelled as integers: a data value is a number in     *)
(* 0..MaxVal, Python's None is the number None == -1.  `not value` is true *)
(* of None and of 0, as in Python.                                         *)
(***************************************************************************)
EXTENDS Integers, Sequences, FiniteSets, TLC

VARIABLES
    handle,      \* Variables.handle: source id -> IDSMapping (path -> value)
    lookup,      \* Variables.lookup: 'ids-<name>' -> variable spec
    ids_cache,   \* Variables._ids_cache: source id -> IDSMapping
    attrs,       \* attributes set explicitly on the instance (its __dict__)
    reads,       \* number of handle.get(ids) calls made so far, per source id
    last,        \* the last operation on the instance and how it ended
    m_pc,        \* merge_data: index in Program of the next statement
    m_status,    \* merge_data: "idle", "running", "failed" or "done"
    m_log,       \* merge_data: the statements executed so far, in order
    target,      \* the target handle: its tree and its backing storage
    data,        \* merge_data: the rows of the data frame `data`
    m_env,       \* merge_data: its local variables
    c_cfg,       \* create: expanded_vars and options.data of the configuration
    c_i,         \* create: the index i of enumerate(combinations)
    c_runs,      \* create: what each iteration of the loop has set up
    c_status,    \* create: "idle", "running" or "done"
    n_samples,   \* ExtrasV210921.n_samples
    run_numbers, \* ExtrasV210921.run_numbers: (db, shot) -> next run number
    e_calls,     \* ExtrasV210921: the add_system_attrs calls that returned
    e_last       \* ExtrasV210921: the last add_system_attrs call

varsVariables == <<handle, lookup, ids_cache, attrs, reads, last>>

varsMerge == <<m_pc, m_status, m_log, target, data, m_env>>

varsCreate == <<c_cfg, c_i, c_runs, c_status>>

varsExtras == <<n_samples, run_numbers, e_calls, e_last>>

vars == <<varsVariables, varsMerge, varsCreate, varsExtras>>

----------------------------------------------------------------------------
(* Bounds and input sets *)

MaxVal == 2        \* data values are 0..MaxVal
MaxPaths == 2      \* a variable spec lists at most MaxPaths candidates
MaxReads == 2      \* handle.get is counted up to MaxReads per source
MaxRuns == 2       \* merge_data gets the data of 1..MaxRuns runs

None == 0 - 1

Values == 0..MaxVal

Ids == {"t0", "t1"}

PathNames == {"time/0"}

VarNames == {"t_start"}

AttrNames == {"moo", "t_start"}

\* values assigned to instance attributes (test_getattr assigns 123)
AttrValues == {0, 123}

Keys == {"t_start", "does_not_exist", "moo"}

\* f'ids-{key}'
IdsKey(key) == <<"ids", key>>

\* an IDSMapping: the paths present in the source, with their values
Mappings == UNION {[P -> Values] : P \in SUBSET PathNames}

Candidates == [ids : Ids, path : PathNames]

SeqsUpTo(S, n) == UNION {[1..k -> S] : k \in 0..n}

\* the accept_if lists of the variable listing: operator and argument
CondNe == [operator |-> "ne", arg |-> 1]
CondGt == [operator |-> "gt", arg |-> 0]

AcceptIfs == {<<>>, <<CondNe>>, <<CondGt>>, <<CondNe, CondGt>>}

VarSpecs == [paths : SeqsUpTo(Candidates, MaxPaths),
             accept_if : AcceptIfs,
             default : Values \cup {None}]

----------------------------------------------------------------------------
(* Variables *)

\* condition(trial) for one entry of spec.accept_if
Holds(condition, trial) ==
    IF condition.operator = "ne" THEN trial # condition.arg
    ELSE trial > condition.arg

AnyPass(accept_if, trial) ==
    \E k \in 1..Len(accept_if) : Holds(accept_if[k], trial)

\* all(condition(trial) for condition in spec.accept_if)
AllPass(accept_if, trial) ==
    \A k \in 1..Len(accept_if) : Holds(accept_if[k], trial)

GetIdsUncached(cache, rd, ids) ==
    [mapping |-> handle[ids],
     cache |-> [i \in DOMAIN cache \cup {ids} |->
                   IF i = ids THEN handle[ids] ELSE cache[i]],
     reads |-> [rd EXCEPT ![ids] = @ + 1]]

\* Variables._get_ids: the mapping, the cache and the read counts after it
GetIds(cache, rd, ids) ==
    IF ids \in DOMAIN cache
    THEN [mapping |-> cache[ids], cache |-> cache, reads |-> rd]
    ELSE [mapping |-> handle[ids],
          cache |-> [i \in DOMAIN cache \cup {ids} |->
                        IF i = ids THEN handle[ids] ELSE cache[i]],
          reads |-> [rd EXCEPT ![ids] = @ + 1]]

OnKeyErrorRaise == "raise"

\* except KeyError: continue
OnKeyError == "continue"

OnAcceptContinue == "continue"

\* value = trial; break
OnAccept == "break"

NotValueZeroOnly(value) == value = 0

\* `not value`
NotValue(value) == value = None \/ value = 0

\* The for loop of __getattr__ from candidate i on.  value and accepted are
\* the loop's variables; tried counts the candidates the loop has fetched.
RECURSIVE Loop(_, _, _, _, _, _)
Loop(spec, i, value, accepted, cache, rd) ==
    IF i > Len(spec.paths)
    THEN [value |-> value, accepted |-> accepted, tried |-> i - 1,
          cache |-> cache, reads |-> rd, raised |-> FALSE]
    ELSE
      LET item == spec.paths[i]
          got == GetIds(cache, rd, item.ids)
      IN  IF item.path \notin DOMAIN got.mapping
          THEN IF OnKeyError = "continue"
               THEN Loop(spec, i + 1, value, accepted, got.cache, got.reads)
               ELSE [value |-> value, accepted |-> accepted, tried |-> i,
                     cache |-> got.cache, reads |-> got.reads, raised |-> TRUE]
          ELSE
            LET trial == got.mapping[item.path]
            IN  IF AllPass(spec.accept_if, trial)
                THEN IF OnAccept = "break"
                     THEN [value |-> trial, accepted |-> i, tried |-> i,
                           cache |-> got.cache, reads |-> got.reads,
                           raised |-> FALSE]
                     ELSE Loop(spec, i + 1, trial, i, got.cache, got.reads)
                ELSE Loop(spec, i + 1, value, accepted, got.cache, got.reads)

NoSpec == [paths |-> <<>>, accept_if |-> <<>>, default |-> None]

Outcome(op, key, kind, value, accepted, tried, spec, msgkey, cache0, reads0) ==
    [op |-> op, key |-> key, kind |-> kind, value |-> value,
     accepted |-> accepted, tried |-> tried, spec |-> spec,
     msgkey |-> msgkey, cache0 |-> cache0, reads0 |-> reads0]

\* create() is not running
IdleCreate ==
    /\ c_cfg = << >>
    /\ c_i = 0
    /\ c_runs = << >>
    /\ c_status = "idle"

\* no ExtrasV210921 instance is in use
IdleExtras ==
    /\ n_samples = 0
    /\ run_numbers = << >>
    /\ e_calls = << >>
    /\ e_last = << >>

\* no merge_data call is in progress
IdleMerge ==
    /\ m_pc = 0
    /\ m_status = "idle"
    /\ m_log = << >>
    /\ target = << >>
    /\ data = {}
    /\ m_env = << >>

InitVariables ==
    /\ IdleMerge
    /\ IdleCreate
    /\ IdleExtras
    /\ handle \in [Ids -> Mappings]
    /\ lookup \in [{IdsKey(n) : n \in VarNames} -> VarSpecs]
    /\ ids_cache = << >>
    /\ attrs = << >>
    /\ reads = [i \in Ids |-> 0]
    /\ last = Outcome("new", "", "return", None, 0, 0, NoSpec, "",
                      {}, [i \in Ids |-> 0])

\* Variables.__getattr__(key), lines 113-117: no entry in the listing
GetattrNoEntry(key) ==
    /\ key \notin DOMAIN attrs
    /\ IdsKey(key) \notin DOMAIN lookup
    /\ last' = Outcome("getattr", key, "KeyError", None, 0, 0, NoSpec, key,
                       DOMAIN ids_cache, reads)
    /\ UNCHANGED <<handle, lookup, ids_cache, attrs, reads>>
    /\ UNCHANGED <<varsMerge, varsCreate, varsExtras>>

\* Variables.__getattr__(key), lines 119-136: resolve the variable
GetattrResolve(key) ==
    /\ key \notin DOMAIN attrs
    /\ IdsKey(key) \in DOMAIN lookup
    /\ \A i \in Ids : reads[i] < MaxReads
    /\ LET spec == lookup[IdsKey(key)]
           r == Loop(spec, 1, spec.default, 0, ids_cache, reads)
           kind == IF r.raised THEN "KeyError"
                   ELSE IF NotValue(r.value) THEN "ValueError" ELSE "return"
       IN  /\ ids_cache' = r.cache
           /\ reads' = r.reads
           /\ last' = Outcome("getattr", key, kind,
                              IF kind = "return" THEN r.value ELSE None,
                              r.accepted, r.tried,
                              IF kind = "ValueError" THEN spec ELSE NoSpec,
                              "", DOMAIN ids_cache, reads)
    /\ UNCHANGED <<handle, lookup, attrs>>
    /\ UNCHANGED <<varsMerge, varsCreate, varsExtras>>

\* every attribute access handed to the resolver, as __getattribute__ would
GetInstanceAttrViaResolver(key) ==
    /\ key \in DOMAIN attrs
    /\ IdsKey(key) \notin DOMAIN lookup
    /\ last' = Outcome("getattr", key, "KeyError", None, 0, 0, NoSpec, key,
                       DOMAIN ids_cache, reads)
    /\ UNCHANGED <<handle, lookup, ids_cache, attrs, reads>>
    /\ UNCHANGED <<varsMerge, varsCreate, varsExtras>>

\* var.<key> for an attribute found on the instance: __getattr__ is not called
GetInstanceAttr(key) ==
    /\ key \in DOMAIN attrs
    /\ last' = Outcome("attr", key, "return", attrs[key], 0, 0, NoSpec, "",
                       DOMAIN ids_cache, reads)
    /\ UNCHANGED <<handle, lookup, ids_cache, attrs, reads>>
    /\ UNCHANGED <<varsMerge, varsCreate, varsExtras>>

\* var.<name> = value
SetAttr(name, value) ==
    /\ attrs' = [n \in DOMAIN attrs \cup {name} |->
                    IF n = name THEN value ELSE attrs[n]]
    /\ last' = Outcome("setattr", name, "return", value, 0, 0, NoSpec, "",
                       DOMAIN ids_cache, reads)
    /\ UNCHANGED <<handle, lookup, ids_cache, reads>>
    /\ UNCHANGED <<varsMerge, varsCreate, varsExtras>>

NextVariables ==
    \/ \E key \in Keys : GetattrNoEntry(key)
    \/ \E key \in Keys : GetattrResolve(key)
    \/ \E key \in Keys : GetInstanceAttr(key)
    \/ \E name \in AttrNames, value \in AttrValues : SetAttr(name, value)

Spec == InitVariables /\ [][NextVariables]_vars

----------------------------------------------------------------------------
(* merge_data *)

\* the data columns y_vals of the merge step
YVals == <<"t_i_ave", "zeff">>

YNames == {YVals[i] : i \in 1..Len(YVals)}

\* key + '_error_upper'
ErrorUpper(y) == IF y = "t_i_ave" THEN "t_i_ave_error_upper" ELSE "zeff_error_upper"

\* f'{prefix}/0/{x_val}' with the default prefix
BasisPath == "profiles_1d/0/rho_tor_norm"

TimePath == "time"

\* f'{prefix}/{tstep}/{y_val}'
Key(tstep, name) == <<"profiles_1d", tstep, name>>

Range(seq) == {seq[i] : i \in 1..Len(seq)}

\* the trees a target can have: the reference grid and the time basis may
\* each be absent; grids and times stay within the range the runs cover
TargetGrids == {<<0, 2>>, <<0, 1, 2>>}

TargetTimes == {<<1>>, <<0, 2>>}

TargetTrees ==
    {t \in UNION {[P -> TargetGrids \cup TargetTimes] :
                     P \in SUBSET {BasisPath, TimePath}} :
        /\ BasisPath \in DOMAIN t => t[BasisPath] \in TargetGrids
        /\ TimePath \in DOMAIN t => t[TimePath] \in TargetTimes}

\* a plain number as a value of the output
Num(v) == [nan |-> FALSE, num |-> v, den |-> 1, rnum |-> 0, rden |-> 1]

\* floating-point NaN
NaN == [nan |-> TRUE, num |-> 0, den |-> 1, rnum |-> 0, rden |-> 1]

\* what the target stores before the merge
OldStorage ==
    (Key(0, "t_i_ave") :> <<Num(1), Num(1)>>) @@
    (Key(0, "rho_tor_norm") :> <<Num(0), Num(2)>>)

\* the runs: every run has its own grid and time points and one of two
\* profiles, sampled at its grid and time points
RunGrids == {<<0, 2>>, <<0, 1, 2>>}

RunTimes == {<<0, 2>>, <<0, 1, 2>>}

Profiles == {"bump", "rise"}

Sample(profile, y, t, x) ==
    IF profile = "bump"
    THEN IF y = "t_i_ave" THEN 4 * x * (2 - x) ELSE 2 + 2 * t
    ELSE IF y = "t_i_ave" THEN 4 * t * t ELSE 2 + 2 * x * (2 - x)

RunConfigs == [grid : RunGrids, times : RunTimes, profile : Profiles]

\* the rows of one run: one row per time step and grid point
RunRows(r, c) ==
    {[run |-> r, tstep |-> k - 1, time |-> c.times[k], x |-> c.grid[g],
      val |-> [y \in YNames |-> Sample(c.profile, y, c.times[k], c.grid[g])]] :
        k \in 1..Len(c.times), g \in 1..Len(c.grid)}

\* the data frame built from the runs
Frame(cfg) == UNION {RunRows(r, cfg[r]) : r \in DOMAIN cfg}

Runs(rows) == {row.run : row \in rows}

\* linear interpolation at x of the function f given at the points DOMAIN f
Interp(f, x) ==
    IF x \in DOMAIN f THEN f[x]
    ELSE LET lo == CHOOSE a \in DOMAIN f :
                       a < x /\ \A b \in DOMAIN f : b < x => b <= a
             hi == CHOOSE a \in DOMAIN f :
                       a > x /\ \A b \in DOMAIN f : b > x => a <= b
         IN  f[lo] + ((f[hi] - f[lo]) * (x - lo)) \div (hi - lo)

\* rebase_on_ids: every (run, tstep) group interpolated onto the grid new_base
rebase_on_ids(rows, new_base) ==
    {[run |-> row.run, tstep |-> row.tstep, time |-> row.time, x |-> x,
      val |-> [y \in YNames |->
                 LET grp == {q \in rows : q.run = row.run /\ q.tstep = row.tstep}
                     f == [a \in {q.x : q \in grp} |->
                             (CHOOSE q \in grp : q.x = a).val[y]]
                 IN  Interp(f, x)]] :
        row \in rows, x \in Range(new_base)}

\* rebase_on_time: every run interpolated, grid point by grid point, onto
\* the times new_base; tstep becomes the index into new_base
rebase_on_time(rows, new_base) ==
    {[run |-> row.run, tstep |-> k - 1, time |-> new_base[k], x |-> row.x,
      val |-> [y \in YNames |->
                 LET grp == {q \in rows : q.run = row.run /\ q.x = row.x}
                     f == [t \in {q.time : q \in grp} |->
                             (CHOOSE q \in grp : q.time = t).val[y]]
                 IN  Interp(f, new_base[k])]] :
        row \in rows, k \in 1..Len(new_base)}

RECURSIVE SumOf(_, _)
SumOf(rows, y) ==
    IF rows = {} THEN 0
    ELSE LET row == CHOOSE q \in rows : TRUE
         IN  row.val[y] + SumOf(rows \ {row}, y)

RECURSIVE SumSqOf(_, _)
SumSqOf(rows, y) ==
    IF rows = {} THEN 0
    ELSE LET row == CHOOSE q \in rows : TRUE
         IN  row.val[y] * row.val[y] + SumSqOf(rows \ {row}, y)

RECURSIVE Gcd(_, _)
Gcd(a, b) == IF b = 0 THEN a ELSE Gcd(b, a % b)

\* 'mean' of data frame aggregation: the sum over the count, in lowest terms
Mean(rows, y) ==
    LET n == Cardinality(rows)
        g == Gcd(SumOf(rows, y), n)
    IN  [nan |-> FALSE, num |-> SumOf(rows, y) \div g, den |-> n \div g,
         rnum |-> 0, rden |-> 1]

\* 'std' of data frame aggregation: the sample standard deviation (n - 1 in
\* the denominator), the square root of rnum / rden; NaN for a single row
Std(rows, y) ==
    LET n == Cardinality(rows)
        vn == n * SumSqOf(rows, y) - SumOf(rows, y) * SumOf(rows, y)
        vd == n * (n - 1)
        g == Gcd(vn, vd)
    IN  IF n = 1 THEN NaN
        ELSE [nan |-> FALSE, num |-> 0, den |-> 1,
              rnum |-> vn \div g, rden |-> vd \div g]

\* mean + stdev
AddStd(mean, stdev) ==
    IF mean.nan \/ stdev.nan THEN NaN
    ELSE [nan |-> FALSE, num |-> mean.num, den |-> mean.den,
          rnum |-> stdev.rnum, rden |-> stdev.rden]

Groups(rows) == {<<row.tstep, row.x>> : row \in rows}

\* data.groupby(['tstep', x_val]).agg({y: ['mean', 'std']})
Aggregated(rows) ==
    [grp \in Groups(rows) |->
        LET members == {q \in rows : q.tstep = grp[1] /\ q.x = grp[2]}
        IN  [y \in YNames |-> [mean |-> Mean(members, y), std |-> Std(members, y)]]]

RECURSIVE Sorted(_)
Sorted(S) ==
    IF S = {} THEN << >>
    ELSE LET m == CHOOSE a \in S : \A b \in S : a <= b
         IN  <<m>> \o Sorted(S \ {m})

\* the iterations of the two nested loops, in order: y_val, then tstep
WriteOrder(merged) ==
    LET ts == Sorted({grp[1] : grp \in DOMAIN merged})
    IN  [i \in 1..(Len(YVals) * Len(ts)) |->
            [y |-> YVals[((i - 1) \div Len(ts)) + 1],
             tstep |-> ts[((i - 1) % Len(ts)) + 1]]]

\* the rows of `merged` for one tstep, in grid order
GroupOf(merged, tstep) == Sorted({grp[2] : grp \in {h \in DOMAIN merged : h[1] = tstep}})

MeanArray(merged, tstep, y) ==
    [i \in 1..Len(GroupOf(merged, tstep)) |->
        merged[<<tstep, GroupOf(merged, tstep)[i]>>][y].mean]

UpperArrayMeanOnly(merged, tstep, y) == MeanArray(merged, tstep, y)

UpperArray(merged, tstep, y) ==
    [i \in 1..Len(GroupOf(merged, tstep)) |->
        AddStd(merged[<<tstep, GroupOf(merged, tstep)[i]>>][y].mean,
               merged[<<tstep, GroupOf(merged, tstep)[i]>>][y].std)]

ProgramSyncFirst ==
    <<"get_ids_tree", "read_basis", "rebase_on_ids", "read_time",
      "rebase_on_time", "aggregate", "open_mapping", "sync", "write">>

ProgramTimeFirst ==
    <<"get_ids_tree", "read_basis", "read_time", "rebase_on_time",
      "rebase_on_ids", "aggregate", "open_mapping", "write", "sync">>

\* the statements of merge_data in source order
Program ==
    <<"get_ids_tree", "read_basis", "rebase_on_ids", "read_time",
      "rebase_on_time", "aggregate", "open_mapping", "write", "sync">>

Stmt == IF m_status = "running" THEN Program[m_pc] ELSE "none"

EmptyEnv ==
    [input_data |-> << >>, common_basis |-> << >>, common_time |-> << >>,
     merged |-> << >>, ids_mapping |-> << >>, wpos |-> 1]

\* no Variables instance is in use
IdleVariables ==
    /\ handle = << >>
    /\ lookup = << >>
    /\ ids_cache = << >>
    /\ attrs = << >>
    /\ reads = << >>
    /\ last = << >>

\* a call merge_data(data, target, x_val, y_vals)
InitMerge ==
    /\ IdleVariables
    /\ IdleCreate
    /\ IdleExtras
    /\ m_pc = 1
    /\ m_status = "running"
    /\ m_log = << >>
    /\ \E tree \in TargetTrees : target = [tree |-> tree, storage |-> OldStorage]
    /\ \E n \in 1..MaxRuns : \E cfg \in [1..n -> RunConfigs] : data = Frame(cfg)
    /\ m_env = EmptyEnv

\* the statement at m_pc has been executed
Advance(stmt) ==
    /\ m_log' = Append(m_log, stmt)
    /\ IF m_pc = Len(Program)
       THEN m_pc' = m_pc /\ m_status' = "done"
       ELSE m_pc' = m_pc + 1 /\ m_status' = "running"

RaiseIgnored(stmt) ==
    /\ m_log' = Append(m_log, stmt)
    /\ m_pc' = m_pc + 1
    /\ m_status' = "running"

\* the statement at m_pc has raised
Raise(stmt) ==
    /\ m_log' = Append(m_log, stmt)
    /\ m_pc' = m_pc
    /\ m_status' = "failed"

\* input_data = get_ids_tree(target)
GetIdsTree ==
    /\ Stmt = "get_ids_tree"
    /\ m_env' = [m_env EXCEPT !.input_data = target.tree]
    /\ Advance("get_ids_tree")
    /\ UNCHANGED <<target, data, varsVariables, varsCreate, varsExtras>>

\* common_basis = input_data[f'{prefix}/0/{x_val}']
ReadBasis ==
    /\ Stmt = "read_basis"
    /\ IF BasisPath \in DOMAIN m_env.input_data
       THEN /\ m_env' = [m_env EXCEPT !.common_basis = m_env.input_data[BasisPath]]
            /\ Advance("read_basis")
       ELSE /\ m_env' = m_env
            /\ Raise("read_basis")
    /\ UNCHANGED <<target, data, varsVariables, varsCreate, varsExtras>>

\* data = rebase_on_ids(data, base_col=x_val, value_cols=y_vals, new_base=common_basis)
RebaseOnIds ==
    /\ Stmt = "rebase_on_ids"
    /\ data' = rebase_on_ids(data, m_env.common_basis)
    /\ Advance("rebase_on_ids")
    /\ UNCHANGED <<target, m_env, varsVariables, varsCreate, varsExtras>>

\* common_time = input_data['time']
ReadTime ==
    /\ Stmt = "read_time"
    /\ IF TimePath \in DOMAIN m_env.input_data
       THEN /\ m_env' = [m_env EXCEPT !.common_time = m_env.input_data[TimePath]]
            /\ Advance("read_time")
       ELSE /\ m_env' = m_env
            /\ Raise("read_time")
    /\ UNCHANGED <<target, data, varsVariables, varsCreate, varsExtras>>

\* data = rebase_on_time(data, cols=[x_val, *y_vals], new_base=common_time)
RebaseOnTime ==
    /\ Stmt = "rebase_on_time"
    /\ data' = rebase_on_time(data, m_env.common_time)
    /\ Advance("rebase_on_time")
    /\ UNCHANGED <<target, m_env, varsVariables, varsCreate, varsExtras>>

\* merged = data.groupby(['tstep', x_val]).agg(agg_dict)
Aggregate ==
    /\ Stmt = "aggregate"
    /\ m_env' = [m_env EXCEPT !.merged = Aggregated(data)]
    /\ Advance("aggregate")
    /\ UNCHANGED <<target, data, varsVariables, varsCreate, varsExtras>>

\* IDSMapping.__setitem__: the value is set in the mapping, which is the
\* caller's copy of the data; the storage behind the handle is not touched
SetItem(mapping, key, value) ==
    [k \in DOMAIN mapping \cup {key} |-> IF k = key THEN value ELSE mapping[k]]

\* IDSMapping.sync(target): what the mapping holds becomes what is stored
SyncTo(tgt, mapping) == [tgt EXCEPT !.storage = mapping]

\* ids_mapping = IDSMapping(target.get('core_profiles'), exclude_empty=False)
OpenMapping ==
    /\ Stmt = "open_mapping"
    /\ m_env' = [m_env EXCEPT !.ids_mapping = target.storage, !.wpos = 1]
    /\ Advance("open_mapping")
    /\ UNCHANGED <<target, data, varsVariables, varsCreate, varsExtras>>

\* one iteration of the loops: ids_mapping[key] = mean and
\* ids_mapping[key + '_error_upper'] = mean + stdev
Write ==
    /\ Stmt = "write"
    /\ LET order == WriteOrder(m_env.merged)
           it == order[m_env.wpos]
           k1 == Key(it.tstep, it.y)
           k2 == Key(it.tstep, ErrorUpper(it.y))
       IN  /\ m_env.wpos <= Len(order)
           /\ m_env' =
                [m_env EXCEPT
                   !.ids_mapping =
                      SetItem(SetItem(m_env.ids_mapping, k1,
                                      MeanArray(m_env.merged, it.tstep, it.y)),
                              k2, UpperArray(m_env.merged, it.tstep, it.y)),
                   !.wpos = @ + 1]
           /\ IF m_env.wpos = Len(order)
              THEN Advance("write")
              ELSE /\ m_log' = Append(m_log, "write")
                   /\ UNCHANGED <<m_pc, m_status>>
    /\ UNCHANGED <<target, data, varsVariables, varsCreate, varsExtras>>

\* ids_mapping.sync(target)
Sync ==
    /\ Stmt = "sync"
    /\ target' = SyncTo(target, m_env.ids_mapping)
    /\ Advance("sync")
    /\ UNCHANGED <<data, m_env, varsVariables, varsCreate, varsExtras>>

NextMerge ==
    \/ GetIdsTree
    \/ ReadBasis
    \/ RebaseOnIds
    \/ ReadTime
    \/ RebaseOnTime
    \/ Aggregate
    \/ OpenMapping
    \/ Write
    \/ Sync

SpecMerge == InitMerge /\ [][NextMerge]_vars

----------------------------------------------------------------------------
(* create *)

MaxDims == 2       \* the matrix has at most MaxDims dimensions
MaxSize == 3       \* a dimension expands to at most MaxSize operations

\* operation['ids'] of the operations of dimension j
DimName(j) ==
    IF j = 1 THEN "t_i_average" ELSE IF j = 2 THEN "zeff" ELSE "electrons_density"

\* var.expand() of dimension j with n values: one operation per value
Expanded(j, n) ==
    [v \in 1..n |-> [ids |-> DimName(j), operator |-> "multiply", value |-> v]]

\* options.data.run_in_start_at and options.data.run_out_start_at
RunInStarts == {7000, 7001}

RunOutStarts == {8000}

CreateConfigs ==
    {[expanded_vars |-> [j \in 1..Len(sizes) |-> Expanded(j, sizes[j])],
      db |-> "jet", shot |-> 94875,
      run_in_start_at |-> a, run_out_start_at |-> b] :
        sizes \in SeqsUpTo(0..MaxSize, MaxDims), a \in RunInStarts, b \in RunOutStarts}

RECURSIVE ProductFirstFastest(_)
ProductFirstFastest(pools) ==
    IF Len(pools) = 0 THEN << << >> >>
    ELSE LET rest == ProductFirstFastest(Tail(pools))
             pool == Head(pools)
         IN  [k \in 1..(Len(rest) * Len(pool)) |->
                 <<pool[((k - 1) % Len(pool)) + 1]>>
                     \o rest[((k - 1) \div Len(pool)) + 1]]

\* itertools.product(*pools): result = [[]], then for every pool in turn
\* result = [x + [y] for x in result for y in pool]
RECURSIVE Product(_)
Product(pools) ==
    IF Len(pools) = 0 THEN << << >> >>
    ELSE LET result == Product(SubSeq(pools, 1, Len(pools) - 1))
             pool == pools[Len(pools)]
         IN  [k \in 1..(Len(result) * Len(pool)) |->
                 Append(result[((k - 1) \div Len(pool)) + 1],
                        pool[((k - 1) % Len(pool)) + 1])]

\* the decimal digits of i, most significant first
RECURSIVE Digits(_)
Digits(i) == IF i < 10 THEN <<i>> ELSE Append(Digits(i \div 10), i % 10)

RECURSIVE ZeroPad(_, _)
ZeroPad(ds, width) == IF Len(ds) >= width THEN ds ELSE ZeroPad(<<0>> \o ds, width)

\* f'run_{i:04d}'
SubDrc(i) == <<"run_">> \o ZeroPad(Digits(i), 4)

\* ImasLocation(db=..., shot=..., run=...)
ImasLocation(db, shot, run) == [db |-> db, shot |-> shot, run |-> run]

InitCreate ==
    /\ IdleVariables
    /\ IdleMerge
    /\ IdleExtras
    /\ c_cfg \in CreateConfigs
    /\ c_i = 0
    /\ c_runs = << >>
    /\ c_status = "running"

\* one iteration of `for i, combination in enumerate(combinations)`
CreateRun ==
    /\ c_status = "running"
    /\ c_i < Len(Product(c_cfg.expanded_vars))
    /\ c_runs' = Append(c_runs,
          [sub_drc |-> SubDrc(c_i),
           target_in |-> ImasLocation(c_cfg.db, c_cfg.shot, c_cfg.run_in_start_at + c_i),
           target_out |-> ImasLocation(c_cfg.db, c_cfg.shot, c_cfg.run_out_start_at + c_i),
           applied |-> Product(c_cfg.expanded_vars)[c_i + 1]])
    /\ c_i' = c_i + 1
    /\ UNCHANGED <<c_cfg, c_status, varsVariables, varsMerge, varsExtras>>

\* the combinations are exhausted: create returns
CreateReturn ==
    /\ c_status = "running"
    /\ c_i = Len(Product(c_cfg.expanded_vars))
    /\ c_status' = "done"
    /\ UNCHANGED <<c_cfg, c_i, c_runs, varsVariables, varsMerge, varsExtras>>

NextCreate ==
    \/ CreateRun
    \/ CreateReturn

SpecCreate == InitCreate /\ [][NextCreate]_vars

----------------------------------------------------------------------------
(* ExtrasV210921 *)

MaxCalls == 4      \* add_system_attrs is called at most MaxCalls times

MAX_RUN == 9999

\* the default of run_numbers: defaultdict(lambda: 1000)
FirstRun == 1000

\* create.sampler.n_samples of the template, as _get_n_samples lets it pass
NSamples == {1, 1500, 2250, 4499, 4500}

\* (handle.db, handle.shot) of the handles read from the input file
HandleKeys == {<<"jet", 94875>>, <<"jet", 94876>>}

\* self.run_numbers[key] of a defaultdict: a missing key reads as the default
RunNumber(numbers, key) ==
    IF key \in DOMAIN numbers THEN numbers[key] ELSE FirstRun

\* self.run_numbers[key] = number
SetRunNumber(numbers, key, number) ==
    [k \in DOMAIN numbers \cup {key} |-> IF k = key THEN number ELSE numbers[k]]

DataOutStart(data_in_start) == data_in_start + n_samples

NextRunNoOutput(data_out_start) == data_out_start

\* the run number the next call for the key starts at
NextRun(data_out_start) == data_out_start + n_samples

\* SimpleNamespace(name=name): the attributes add_system_attrs has set on it
EmptyRun == [set |-> FALSE, data_in_start |-> None, data_out_start |-> None]

InitExtras ==
    /\ IdleVariables
    /\ IdleMerge
    /\ IdleCreate
    /\ n_samples \in NSamples
    /\ run_numbers = << >>
    /\ e_calls = << >>
    /\ e_last = << >>

\* add_system_attrs(handle, run) with (handle.db, handle.shot) = key
AddSystemAttrs(key) ==
    LET data_in_start == RunNumber(run_numbers, key)
        data_out_start == DataOutStart(data_in_start)
        numbers == SetRunNumber(run_numbers, key, NextRun(data_out_start))
    IN  /\ Len(e_calls) < MaxCalls
        /\ e_last' = run_numbers
        /\ run_numbers' = numbers
        /\ IF numbers[key] > MAX_RUN
           THEN e_calls' = Append(e_calls,
                    [key |-> key, outcome |-> "ValueError", run |-> EmptyRun])
           ELSE e_calls' = Append(e_calls,
                    [key |-> key, outcome |-> "returned",
                     run |-> [set |-> TRUE,
                              data_in_start |-> data_in_start,
                              data_out_start |-> data_out_start]])
        /\ UNCHANGED <<n_samples, varsVariables, varsMerge, varsCreate>>

NextExtras == \E key \in HandleKeys : AddSystemAttrs(key)

SpecExtras == InitExtras /\ [][NextExtras]_vars

----------------------------------------------------------------------------
(* What the listing and the sources say, stated without the loop *)

\* the last operation was __getattr__ on a name that has an entry
Resolved == last.op = "getattr" /\ IdsKey(last.key) \in DOMAIN lookup

LastSpec == lookup[IdsKey(last.key)]

Resolves(c) == c.path \in DOMAIN handle[c.ids]

ValueOf(c) == handle[c.ids][c.path]

AllHold(spec, v) ==
    \A k \in DOMAIN spec.accept_if :
        LET cnd == spec.accept_if[k]
        IN  (cnd.operator = "ne" /\ v # cnd.arg) \/ (cnd.operator = "gt" /\ v > cnd.arg)

Acceptable(spec) ==
    {i \in 1..Len(spec.paths) :
        Resolves(spec.paths[i]) /\ AllHold(spec, ValueOf(spec.paths[i]))}

\* index of the first acceptable candidate, 0 when there is none
FirstAcceptable(spec) ==
    IF Acceptable(spec) = {} THEN 0
    ELSE CHOOSE i \in Acceptable(spec) : \A j \in Acceptable(spec) : i <= j

\* C1: whenever some candidate resolves and passes every accept_if predicate,
\* the lookup returns the value of the first such candidate (not a later one,
\* not the default, not an error).
C1_FirstAcceptedReturned ==
    (Resolved /\ FirstAcceptable(LastSpec) > 0) =>
        /\ last.kind = "return"
        /\ last.value = ValueOf(LastSpec.paths[FirstAcceptable(LastSpec)])

\* C2: whenever no candidate is accepted and a default is set, the lookup
\* returns the default and does not raise, whatever the default is.
C2_DefaultReturned ==
    (Resolved /\ FirstAcceptable(LastSpec) = 0 /\ LastSpec.default # None) =>
        /\ last.kind = "return"
        /\ last.value = LastSpec.default

\* C3: whenever no candidate is accepted and no default is set, the lookup
\* raises ValueError carrying the specification and returns no value.
C3_NoDefaultRaises ==
    (Resolved /\ FirstAcceptable(LastSpec) = 0 /\ LastSpec.default = None) =>
        /\ last.kind = "ValueError"
        /\ last.spec = LastSpec
        /\ last.value = None

C3_Witness ==
    /\ Resolved
    /\ Len(LastSpec.paths) = MaxPaths
    /\ \E j \in 1..Len(LastSpec.paths) : Resolves(LastSpec.paths[j])
    /\ FirstAcceptable(LastSpec) = 0
    /\ LastSpec.default = None
    /\ last.kind = "ValueError"

\* C4: a candidate whose path is absent from its source is rejected and the
\* loop goes on: the KeyError never ends the lookup, the next candidate is
\* tried, and a later acceptable candidate is the one accepted.
C4_MissingPathContinues ==
    Resolved =>
        \A j \in 1..Len(LastSpec.paths) :
            (/\ ~Resolves(LastSpec.paths[j])
             /\ \A a \in Acceptable(LastSpec) : a > j) =>
                /\ last.kind # "KeyError"
                /\ last.tried >= j
                /\ j < Len(LastSpec.paths) => last.tried > j
                /\ last.accepted = FirstAcceptable(LastSpec)

C4_Witness ==
    /\ Resolved
    /\ Len(LastSpec.paths) >= 2
    /\ ~Resolves(LastSpec.paths[1])
    /\ last.accepted = 2
    /\ last.kind = "return"
    /\ last.value = ValueOf(LastSpec.paths[2])

\* C5: a tried candidate whose path resolves is the accepted one exactly when
\* all accept_if predicates hold for its value (an empty list accepts); one
\* that fails a predicate is rejected and the next candidate is tried.
C5_AcceptIffAllPredicates ==
    Resolved =>
        \A j \in 1..last.tried :
            Resolves(LastSpec.paths[j]) =>
                /\ (last.accepted = j) <=> AllHold(LastSpec, ValueOf(LastSpec.paths[j]))
                /\ (~AllHold(LastSpec, ValueOf(LastSpec.paths[j]))
                      /\ j < Len(LastSpec.paths)) => last.tried > j

C5_Witness ==
    /\ Resolved
    /\ Len(LastSpec.accept_if) = 2
    /\ Len(LastSpec.paths) >= 2
    /\ Resolves(LastSpec.paths[1])
    /\ AllHold([LastSpec EXCEPT !.accept_if = <<CondGt>>], ValueOf(LastSpec.paths[1]))
    /\ ~AllHold(LastSpec, ValueOf(LastSpec.paths[1]))
    /\ last.accepted = 2

\* C6: every source is read from the handle at most once, a source is in the
\* cache exactly when it has been read, and an entry of the cache is never
\* removed or replaced.
C6_SourceReadOnce ==
    /\ [](\A i \in Ids : /\ reads[i] <= 1
                         /\ (reads[i] = 1) <=> (i \in DOMAIN ids_cache))
    /\ [][\A i \in DOMAIN ids_cache :
              i \in DOMAIN ids_cache' /\ ids_cache'[i] = ids_cache[i]]_vars

C6_Witness ==
    /\ Resolved
    /\ last.tried >= 1
    /\ LastSpec.paths[1].ids \in last.cache0
    /\ reads[LastSpec.paths[1].ids] = 1

\* number of candidates a lookup has to try: up to the first acceptable one
NeededTries(spec) ==
    IF FirstAcceptable(spec) > 0 THEN FirstAcceptable(spec) ELSE Len(spec.paths)

SourcesTried(spec) == {spec.paths[j].ids : j \in 1..NeededTries(spec)}

\* C7: the cache of a new instance is empty, and a lookup adds to the cache
\* exactly the sources of the candidates up to and including the accepted
\* one: it reads those not cached before and reads or caches nothing else.
C7_LazyCache ==
    /\ last.op = "new" => DOMAIN ids_cache = {}
    /\ Resolved =>
          /\ DOMAIN ids_cache = last.cache0 \cup SourcesTried(LastSpec)
          /\ \A i \in Ids :
                reads[i] - last.reads0[i] =
                    IF i \in SourcesTried(LastSpec) \ last.cache0 THEN 1 ELSE 0

C7_Witness ==
    /\ Resolved
    /\ last.cache0 = {}
    /\ Len(LastSpec.paths) = 2
    /\ last.accepted = 1
    /\ DOMAIN ids_cache = {LastSpec.paths[1].ids}
    /\ LastSpec.paths[2].ids \notin DOMAIN ids_cache
    /\ reads[LastSpec.paths[2].ids] = 0

\* the last operation was an attribute access var.<key>
Accessed == last.op \in {"getattr", "attr"}

\* C8: an access to a name with no entry in the listing raises KeyError
\* naming the key, reads no source and leaves the cache as it was; an
\* attribute set on the instance is returned as set, without the resolver.
C8_NoEntryKeyError ==
    /\ (Accessed /\ last.key \notin DOMAIN attrs
          /\ IdsKey(last.key) \notin DOMAIN lookup) =>
            /\ last.kind = "KeyError"
            /\ last.msgkey = last.key
            /\ DOMAIN ids_cache = last.cache0
            /\ reads = last.reads0
    /\ (Accessed /\ last.key \in DOMAIN attrs) =>
            /\ last.op = "attr"
            /\ last.kind = "return"
            /\ last.value = attrs[last.key]
            /\ DOMAIN ids_cache = last.cache0
            /\ reads = last.reads0

C8_Witness ==
    /\ last.op = "getattr"
    /\ last.key = "does_not_exist"
    /\ last.kind = "KeyError"
    /\ last.cache0 # {}
    /\ "moo" \in DOMAIN attrs

----------------------------------------------------------------------------
(* merge_data: claims *)

Executed(stmt) == \E i \in 1..Len(m_log) : m_log[i] = stmt

\* C9: when exactly one run contributes, every aggregated point has standard
\* deviation 0 and the run's value as its mean, and the array written to
\* '<var>_error_upper' equals the array written to '<var>'.
C9_SingleRunZeroStd ==
    (Cardinality(Runs(data)) = 1 /\ Executed("aggregate")) =>
        /\ \A grp \in DOMAIN m_env.merged : \A y \in YNames :
              /\ m_env.merged[grp][y].std = Num(0)
              /\ \E row \in data :
                    /\ row.tstep = grp[1]
                    /\ row.x = grp[2]
                    /\ m_env.merged[grp][y].mean = Num(row.val[y])
        /\ \A i \in 1..(m_env.wpos - 1) :
              LET it == WriteOrder(m_env.merged)[i]
              IN  m_env.ids_mapping[Key(it.tstep, ErrorUpper(it.y))] =
                      m_env.ids_mapping[Key(it.tstep, it.y)]

\* C10: the grid rebase is executed before the time rebase and both before
\* the aggregation; when the time rebase or the aggregation has run, every
\* (run, tstep) group of the data lies on the reference grid.
C10_GridBeforeTime ==
    /\ \A i \in 1..Len(m_log) :
          /\ m_log[i] = "rebase_on_time" =>
                \E j \in 1..(i - 1) : m_log[j] = "rebase_on_ids"
          /\ m_log[i] = "aggregate" =>
                /\ \E j \in 1..(i - 1) : m_log[j] = "rebase_on_ids"
                /\ \E j \in 1..(i - 1) : m_log[j] = "rebase_on_time"
    /\ (Executed("rebase_on_time") \/ Executed("aggregate")) =>
          \A row \in data :
              {q.x : q \in {q \in data : q.run = row.run /\ q.tstep = row.tstep}}
                  = Range(m_env.common_basis)

C10_Witness ==
    /\ m_status = "done"
    /\ Cardinality(Runs(data)) = 2
    /\ Executed("rebase_on_ids")
    /\ Executed("rebase_on_time")
    /\ Executed("aggregate")
    /\ Len(m_env.common_basis) = 3
    /\ Len(m_env.common_time) = 2

\* the rows of the data frame in the group (tstep, x)
GroupRows(tstep, x) == {q \in data : q.tstep = tstep /\ q.x = x}

\* the grid values of the data frame at tstep, in increasing order
GridAt(tstep) == Sorted({q.x : q \in {r \in data : r.tstep = tstep}})

\* the keys merge_data has to write
OutputKeys ==
    {Key(q.tstep, y) : q \in data, y \in YNames}
        \cup {Key(q.tstep, ErrorUpper(y)) : q \in data, y \in YNames}

WritesDone == Executed("write") /\ m_env.wpos > Len(WriteOrder(m_env.merged))

\* C11: the rows are grouped by (tstep, grid value); once the loops have
\* ended, for every data variable y and every tstep t of the data the output
\* mapping holds the group means at <prefix>/<t>/<y> and the group means plus
\* standard deviations at <prefix>/<t>/<y>_error_upper, and every other key
\* of the mapping is as it was read from the target.
C11_OutputContent ==
    /\ Executed("aggregate") =>
          DOMAIN m_env.merged = {<<q.tstep, q.x>> : q \in data}
    /\ WritesDone =>
          /\ \A q \in data : \A y \in YNames :
                LET xs == GridAt(q.tstep)
                IN  /\ m_env.ids_mapping[Key(q.tstep, y)] =
                          [i \in 1..Len(xs) |-> Mean(GroupRows(q.tstep, xs[i]), y)]
                    /\ m_env.ids_mapping[Key(q.tstep, ErrorUpper(y))] =
                          [i \in 1..Len(xs) |->
                              AddStd(Mean(GroupRows(q.tstep, xs[i]), y),
                                     Std(GroupRows(q.tstep, xs[i]), y))]
          /\ DOMAIN m_env.ids_mapping = DOMAIN OldStorage \cup OutputKeys
          /\ \A k \in DOMAIN OldStorage \ OutputKeys :
                m_env.ids_mapping[k] = OldStorage[k]

C11_Witness ==
    /\ m_status = "done"
    /\ Cardinality(Runs(data)) = 2
    /\ Len(m_env.common_time) = 2
    /\ Len(m_env.common_basis) = 3
    /\ m_env.ids_mapping[Key(1, "t_i_ave_error_upper")][2].rnum > 0
    /\ m_env.ids_mapping[Key(1, "t_i_ave")][2].num > 0

NumberOf(stmt) == Cardinality({i \in 1..Len(m_log) : m_log[i] = stmt})

\* C12: the writes of merge_data go to the mapping only: the storage of the
\* target is as before the call until sync(target) has run; sync runs at most
\* once, after all the writes of the loops, and a finished call has run it
\* exactly once and stored what had been staged.
C12_DeferredWrite ==
    /\ ~Executed("sync") => target.storage = OldStorage
    /\ NumberOf("sync") <= 1
    /\ \A i \in 1..Len(m_log) :
          m_log[i] = "sync" =>
              /\ Cardinality({j \in 1..(i - 1) : m_log[j] = "write"})
                     = Len(WriteOrder(m_env.merged))
              /\ \A j \in (i + 1)..Len(m_log) : m_log[j] # "write"
    /\ m_status = "done" =>
          /\ NumberOf("sync") = 1
          /\ target.storage = m_env.ids_mapping

C12_Witness ==
    /\ Stmt = "sync"
    /\ NumberOf("write") = 4
    /\ m_env.ids_mapping # OldStorage
    /\ target.storage = OldStorage

\* C13: when the reference grid or the time basis is missing from the tree
\* of the target, merge_data raises at the statement that reads it: nothing
\* is aggregated, no write is staged, sync does not run, and the storage of
\* the target stays as it was.
C13_MissingBasisFails ==
    (m_status # "idle"
        /\ (BasisPath \notin DOMAIN target.tree \/ TimePath \notin DOMAIN target.tree)) =>
        /\ m_status # "done"
        /\ (BasisPath \notin DOMAIN target.tree /\ Executed("read_basis")) =>
              /\ m_status = "failed"
              /\ ~Executed("rebase_on_ids")
        /\ Executed("read_time") => m_status = "failed"
        /\ ~Executed("aggregate")
        /\ ~Executed("open_mapping")
        /\ ~Executed("write")
        /\ ~Executed("sync")
        /\ m_env.merged = << >>
        /\ m_env.ids_mapping = << >>
        /\ target.storage = OldStorage

C13_Witness ==
    /\ m_status = "failed"
    /\ BasisPath \in DOMAIN target.tree
    /\ TimePath \notin DOMAIN target.tree
    /\ Executed("rebase_on_ids")
    /\ m_log[Len(m_log)] = "read_time"
    /\ target.storage = OldStorage

----------------------------------------------------------------------------
(* create: claims *)

SizeOf(j) == Len(c_cfg.expanded_vars[j])

RECURSIVE ProdSizes(_, _)
\* n_lo * ... * n_hi
ProdSizes(lo, hi) == IF lo > hi THEN 1 ELSE SizeOf(lo) * ProdSizes(lo + 1, hi)

NDims == Len(c_cfg.expanded_vars)

\* the i-th combination (from 0) in lexicographic order, last dimension fastest
NthCombination(i) ==
    [j \in 1..NDims |->
        c_cfg.expanded_vars[j][((i \div ProdSizes(j + 1, NDims)) % SizeOf(j)) + 1]]

\* 'run_' and the four decimal digits of i, for i below 10000
FourDigits(i) ==
    <<"run_", (i \div 1000) % 10, (i \div 100) % 10, (i \div 10) % 10, i % 10>>

\* C14: the loop of create sets up exactly n_1 * ... * n_k runs, the i-th
\* (from 0) for the i-th combination in lexicographic order with the last
\* dimension varying fastest, in directory run_<i:04d>, with input run
\* run_in_start_at + i and output run run_out_start_at + i; no two runs share
\* a combination, a directory, an input location or an output location.
C14_CartesianProduct ==
    c_status # "idle" =>
        /\ Len(c_runs) <= ProdSizes(1, NDims)
        /\ c_status = "done" => Len(c_runs) = ProdSizes(1, NDims)
        /\ \A i \in 1..Len(c_runs) :
              /\ c_runs[i].applied = NthCombination(i - 1)
              /\ c_runs[i].sub_drc = FourDigits(i - 1)
              /\ c_runs[i].target_in.run = c_cfg.run_in_start_at + (i - 1)
              /\ c_runs[i].target_out.run = c_cfg.run_out_start_at + (i - 1)
        /\ \A i, j \in 1..Len(c_runs) :
              i # j =>
                  /\ c_runs[i].applied # c_runs[j].applied
                  /\ c_runs[i].sub_drc # c_runs[j].sub_drc
                  /\ c_runs[i].target_in # c_runs[j].target_in
                  /\ c_runs[i].target_out # c_runs[j].target_out

C14_Witness ==
    /\ c_status = "done"
    /\ NDims = 2
    /\ SizeOf(1) = 2
    /\ SizeOf(2) = 3
    /\ Len(c_runs) = 6
    /\ c_runs[2].applied[1].value = 1
    /\ c_runs[2].applied[2].value = 2
    /\ c_runs[6].sub_drc = <<"run_", 0, 0, 0, 5>>

----------------------------------------------------------------------------
(* ExtrasV210921: claims *)

\* the calls that returned normally
Returned == {i \in 1..Len(e_calls) : e_calls[i].outcome = "returned"}

\* [a, a + n_samples) and [b, b + n_samples) have no run number in common
Apart(a, b) == a + n_samples <= b \/ b + n_samples <= a

LastCall == e_calls[Len(e_calls)]

\* C15: every call that returned got data_in_start (1000 on the first call
\* for its key) and data_out_start = data_in_start + n_samples; the input
\* and output ranges of all returned calls for one key are pairwise
\* disjoint; a call leaves the counter of every other key as it was.
C15_Allocation ==
    /\ \A i \in Returned :
          /\ e_calls[i].run.set
          /\ (\A j \in 1..(i - 1) : e_calls[j].key # e_calls[i].key)
                => e_calls[i].run.data_in_start = 1000
          /\ e_calls[i].run.data_out_start = e_calls[i].run.data_in_start + n_samples
          /\ Apart(e_calls[i].run.data_in_start, e_calls[i].run.data_out_start)
    /\ \A i, j \in Returned :
          (i # j /\ e_calls[i].key = e_calls[j].key) =>
              /\ Apart(e_calls[i].run.data_in_start, e_calls[j].run.data_in_start)
              /\ Apart(e_calls[i].run.data_in_start, e_calls[j].run.data_out_start)
              /\ Apart(e_calls[i].run.data_out_start, e_calls[j].run.data_out_start)
    /\ Len(e_calls) > 0 =>
          \A k \in HandleKeys :
              k # LastCall.key =>
                  /\ (k \in DOMAIN run_numbers) = (k \in DOMAIN e_last)
                  /\ RunNumber(run_numbers, k) = RunNumber(e_last, k)

C15_Witness ==
    /\ n_samples = 1500
    /\ Len(e_calls) = 3
    /\ e_calls[1].key = e_calls[3].key
    /\ e_calls[2].key # e_calls[1].key
    /\ Returned = {1, 2, 3}
    /\ e_calls[3].run.data_in_start = 4000
    /\ e_calls[3].run.data_out_start = 5500

\* a call that returned allocated no run number above MAX_RUN
C16_ReturnedWithinBound ==
    \A i \in Returned : e_calls[i].run.data_out_start + n_samples - 1 <= 9999

\* a call that raised set nothing on the run namespace
C16_RaiseSetsNothing ==
    \A i \in 1..Len(e_calls) :
        e_calls[i].outcome = "ValueError" => ~e_calls[i].run.set

\* a call that raised left run_numbers as it was before the call
C16_RaiseLeavesAllocator ==
    (Len(e_calls) > 0 /\ LastCall.outcome = "ValueError") =>
        \A k \in HandleKeys : RunNumber(run_numbers, k) = RunNumber(e_last, k)

\* C16: whenever add_system_attrs returns normally, data_out_start +
\* n_samples - 1 <= 9999; a call that would allocate beyond MAX_RUN raises
\* ValueError, sets neither data_in_start nor data_out_start on the run
\* namespace, and leaves run_numbers as it was before the call.
C16_RunNumberBound ==
    /\ C16_ReturnedWithinBound
    /\ C16_RaiseSetsNothing
    /\ C16_RaiseLeavesAllocator

====
